---- MODULE Spec2Model ----
(***************************************************************************)
(* Model of the serverless handlers of va-button-test01 that share the     *)
(* Google credential cookie "gTokens":                                     *)
(*   - api/workspace.js (fetch-based version, lines 1-660): router,        *)
(*     withRefresh, resolveFolderId / resolveFileByName, the sheets and    *)
(*     drive actions;                                                      *)
(*   - api/sheets/read_by_search.ts: withAutoRefresh and its handler;      *)
(*   - api/google.js (second handler, lines 79-157): callback, status, me, *)
(*     logout, refreshIfNeeded / writeTokens.                              *)
(* A request is a process that moves from one network call (await) to the  *)
(* next; the provider's answers are nondeterministic inputs.               *)
(* Time is counted in units of 60 s.                                       *)
(***************************************************************************)
EXTENDS Integers, Sequences, FiniteSets

VARIABLES cookie, now, req, fin, fout

vars == <<cookie, now, req, fin, fout>>

(* ------------------------------ bounds --------------------------------- *)
MaxTok == 2        \* access token values 1..MaxTok (0: no access token)
MaxTime == 1       \* the clock runs 0..MaxTime
MaxList == 3       \* candidates per search answer
MaxStamp == 2      \* modifiedTime values 1..MaxStamp (0: missing)

RefreshSkew == 1   \* 60_000 ms, in units of 60 s

Procs == {1, 2}
SeqProcs == {1}

(* ---------------------------- data model ------------------------------- *)
\* A credential set (GTokens): has = FALSE is "no cookie" (null).
NoCred == [has |-> FALSE, at |-> 0, rt |-> 0, exp |-> 0]

MkCred(at, rt, exp) == [has |-> TRUE, at |-> at, rt |-> rt, exp |-> exp]

\* Answers of https://oauth2.googleapis.com/token: r.ok and the JSON fields
\* access_token, refresh_token, expires_in (0: the field is absent).
\* A refresh grant names a new refresh token (2) or none; the lifetime is
\* one unit when declared.
TokenResponses ==
  [ok : BOOLEAN, at : 0..MaxTok, rt : {0, 2}, life : {0, 1}]

\* Answers of the first consent exchange (authorization_code grant).
GrantResponses ==
  [ok : BOOLEAN, at : {0, 1}, rt : {0, 1}, life : {0, 1}]

\* HTTP statuses a provider call answers with.
Statuses == {200, 401, 403, 500}

IsOk(st) == st >= 200 /\ st <= 299

\* Names a name search can return for the searched name Target: the name
\* itself, a longer name containing it, and a case variant.
Target == "Budget"
Names == {"Budget", "Budget Q1", "budget"}

NoFile == [id |-> 0, name |-> "", mt |-> 0]

RECURSIVE SeqsUpTo(_, _)
SeqsUpTo(S, n) ==
  IF n = 0 THEN {<<>>}
  ELSE LET shorter == SeqsUpTo(S, n - 1)
       IN shorter \cup {Append(s, x) : s \in {t \in shorter : Len(t) = n - 1}, x \in S}

\* A search answer: files(id,name,modifiedTime); the id is the position in
\* the provider's order.
WithIds(s) == [i \in 1..Len(s) |-> [id |-> i, name |-> s[i][1], mt |-> s[i][2]]]

CandLists(names, n) ==
  {WithIds(s) : s \in SeqsUpTo(names \X (0..MaxStamp), n)}

\* The search answers the handler model draws from: no candidate, or several.
HandlerAnswers ==
  {<<>>, WithIds(<<<<"Budget Q1", 1>>, <<"Budget", 1>>>>)}

(* ------------------------- the resource resolver ------------------------ *)
\* (b.modifiedTime || '').localeCompare(a.modifiedTime || '') on timestamps
Sign(x) == IF x < 0 THEN -1 ELSE IF x > 0 THEN 1 ELSE 0

\* Mutant: the exact-name key is dropped, only modifiedTime orders.
SortCmpByTime(a, b, name) == Sign(b.mt - a.mt)

\* The comparator of folders.sort / files.sort.
SortCmp(a, b, name) ==
  LET first == IF a.name = name THEN -1 ELSE IF b.name = name THEN 1 ELSE 0
  IN IF first # 0 THEN first ELSE Sign(b.mt - a.mt)

Reverse(s) == [i \in 1..Len(s) |-> s[Len(s) + 1 - i]]

\* Array.prototype.sort of the runtime (V8 TimSort; below 64 elements it is
\* one run detection followed by a binary insertion sort).
RECURSIVE RunEnd(_, _, _, _)
RunEnd(a, desc, i, name) ==
  IF i = Len(a) THEN i
  ELSE LET order == SortCmp(a[i + 1], a[i], name)
       IN IF (desc /\ order >= 0) \/ (~desc /\ order < 0) THEN i
          ELSE RunEnd(a, desc, i + 1, name)

RECURSIVE BinarySearch(_, _, _, _, _)
BinarySearch(a, pivot, left, right, name) ==
  IF left >= right THEN left
  ELSE LET mid == left + ((right - left) \div 2)
       IN IF SortCmp(pivot, a[mid + 1], name) < 0
          THEN BinarySearch(a, pivot, left, mid, name)
          ELSE BinarySearch(a, pivot, mid + 1, right, name)

RECURSIVE BinaryInsertionSort(_, _, _)
BinaryInsertionSort(a, start, name) ==
  IF start >= Len(a) THEN a
  ELSE LET pivot == a[start + 1]
           left == BinarySearch(a, pivot, 0, start, name)
           moved == SubSeq(a, 1, left) \o <<pivot>> \o SubSeq(a, left + 1, start)
                    \o SubSeq(a, start + 2, Len(a))
       IN BinaryInsertionSort(moved, start + 1, name)

SortByName(a, name) ==
  IF Len(a) < 2 THEN a
  ELSE LET desc == SortCmp(a[2], a[1], name) < 0
           run == RunEnd(a, desc, 2, name)
           a1 == IF desc THEN Reverse(SubSeq(a, 1, run)) \o SubSeq(a, run + 1, Len(a))
                 ELSE a
       IN BinaryInsertionSort(a1, run, name)

\* resolveFileByName / resolveFolderId after the search: null (NoFile) for
\* no candidate, else files[0] of the sorted answer.
ResolveFileByName(files, name) ==
  IF files = <<>> THEN NoFile ELSE SortByName(files, name)[1]

(* -------------------------- the token refresher ------------------------- *)
\* Mutant: the credential set is rebuilt from the answer alone (no ...tokens).
RefreshedTokensFromAnswer(tokens, data, t) ==
  [has |-> TRUE, at |-> data.at, rt |-> data.rt,
   exp |-> IF data.life # 0 THEN t + data.life ELSE tokens.exp]

\* refreshAccessToken: the credential set it returns on success.
RefreshedTokens(tokens, data, t) ==
  [tokens EXCEPT !.at = data.at,
                 !.exp = IF data.life # 0 THEN t + data.life ELSE tokens.exp]

\* refreshAccessToken: does the exchange succeed?
RefreshAccepted(data) == data.ok /\ data.at # 0

\* writeTokens of api/google.js: the merged record it stores and returns.
WriteTokens(data, t) ==
  MkCred(data.at, data.rt, IF data.life # 0 THEN t + data.life ELSE 0)

\* refreshIfNeeded lines 75-76: the previous refresh token is kept when the
\* answer names none, and the answer is stored with writeTokens.
GoogleRefreshed(cur, data, t) ==
  WriteTokens([data EXCEPT !.rt = IF data.rt # 0 THEN data.rt ELSE cur.rt], t)

\* r.status of a token endpoint answer (r.ok is a 2xx status).
TokenStatus(data) == IF data.ok THEN 200 ELSE 400

(* ----------------------------- a request -------------------------------- *)
NoResp == [status |-> 0, ok |-> "absent", note |-> ""]

\* A string field of the JSON body: absent or empty, whitespace only, or
\* with content.
Fields == {"", " ", "x"}

\* (b.field || '').toString().trim()
Trim(s) == IF s = " " THEN "" ELSE s

\* fileName and folderName say whether the field is non-empty after trim(),
\* values and row whether the field is a non-empty array; the other fields
\* are the strings as sent.
NoBody ==
  [fileName |-> FALSE, folderName |-> FALSE, values |-> FALSE, row |-> FALSE,
   docName |-> "", cell |-> "", text |-> "", summary |-> "", start |-> ""]

Bodies ==
  [fileName : BOOLEAN, folderName : BOOLEAN, values : BOOLEAN, row : BOOLEAN,
   docName : Fields, cell : Fields, text : Fields, summary : Fields, start : Fields]

\* What a realtime offer handler reads of a request and of the environment:
\* the Content-Type and Origin headers, whether the API key is configured
\* and whether ALLOWED_ORIGIN is.
NoOffer == [ct |-> "", origin |-> "", apiKey |-> FALSE, mainOrigin |-> FALSE]

Idle ==
  [pc |-> "idle", ep |-> "none", action |-> "none", method |-> "none",
   body |-> NoBody, offer |-> NoOffer,
   tokens0 |-> NoCred, tokens |-> NoCred, wt |-> NoCred,
   op |-> "none", w |-> 0, log |-> <<>>, folderId |-> 0, file |-> NoFile,
   resp |-> NoResp, hdr |-> NoCred, hdrSet |-> FALSE, rerr |-> FALSE]

\* One entry of a request's trace, for wrapper call w and operation op.
\*   "call"    a provider call with access token tok was answered st
\*   "token"   the token endpoint was called and answered st, access_token tok
\*   "refreshOk"        refreshAccessToken returned access token tok
\*   "noRefreshToken"   refreshAccessToken threw 'No refresh_token available'
\*   "refreshRejected"  refreshAccessToken threw 'Refresh failed: ...'
\*   "write"   Set-Cookie gTokens=... with access token tok
\*   "ret"     the wrapper returned status st and tokens.access_token tok
\*   "throw"   the wrapper threw
\*   "files"   a search answered with success and st candidates
Ev(k, r, tok, st) == [k |-> k, w |-> r.w, op |-> r.op, tok |-> tok, st |-> st]

Logged(r, e) == [r EXCEPT !.log = Append(@, e)]

\* json(res, status, body): ok is the body's ok flag ("absent": none).
Respond(r, status, ok, note) ==
  [r EXCEPT !.pc = "done", !.resp = [status |-> status, ok |-> ok, note |-> note]]

\* setTokensCookie(res, req, tokens)
SetTokensCookie(r, tokens) ==
  Logged([r EXCEPT !.hdr = tokens, !.hdrSet = TRUE], Ev("write", r, tokens.at, 0))

\* withRefresh / withAutoRefresh is entered for provider operation op with
\* the handler's tokens.
BeginCall(r, op) ==
  [r EXCEPT !.pc = "call1", !.op = op, !.w = @ + 1, !.wt = r.tokens]


\* Where the handler's catch block sends an exception that carries no
\* status: json(res, 500, {error, details}).
Caught(r) == Respond(r, 500, "absent", "")

\* The handler of api/google_sheets_docs.ts has no try/catch: the exception
\* rejects the handler's promise and the platform answers, not the handler.
Uncaught(r) == Respond(r, 500, "absent", "uncaught")

(* ---------------- api/workspace.js and read_by_search.ts ---------------- *)
Methods == {"POST", "GET", "OPTIONS"}

WsActions ==
  {"sheets.read", "sheets.appendrow", "sheets.updatecell", "docs.createappend",
   "calendar.create", "drive.listroot", "unknown"}

\* The actions of api/google_sheets_docs.ts.
GsdActions == {"read_by_search", "append", "doc_append", "unknown"}

\* The actions that append to a document found by name, or created.
DocActions == {"docs.createappend", "doc_append"}

\* The request bodies that differ for an action's handler (the document
\* actions are requested by docName, without docId, mode and folderName).
BodiesFor(action) ==
  CASE action \in {"sheets.read", "read_by_search"} ->
         {[NoBody EXCEPT !.fileName = f, !.folderName = d] : f, d \in BOOLEAN}
    [] action = "sheets.appendrow" ->
         {[NoBody EXCEPT !.fileName = f, !.folderName = d, !.values = v] :
            f, d, v \in BOOLEAN}
    [] action = "append" ->
         {[NoBody EXCEPT !.fileName = f, !.folderName = d, !.row = v] :
            f, d, v \in BOOLEAN}
    [] action = "sheets.updatecell" ->
         {[NoBody EXCEPT !.fileName = f, !.cell = c] : f \in BOOLEAN, c \in Fields}
    [] action \in DocActions ->
         {[NoBody EXCEPT !.docName = n, !.text = t] : n, t \in Fields}
    [] action = "calendar.create" ->
         {[NoBody EXCEPT !.summary = n, !.start = t] : n, t \in Fields}
    [] OTHER -> {NoBody}

IsSearch(op) == op \in {"folderSearch", "fileSearch"}

\* What the provider can answer to operation op.
Answers(op, st) ==
  IF IsSearch(op) /\ IsOk(st) THEN HandlerAnswers ELSE {<<>>}

\* The provider operation an action ends with.
FinalOp(action) ==
  CASE action \in {"sheets.appendrow", "append"} -> "sheetsAppend"
    [] action = "sheets.updatecell" -> "sheetsUpdate"
    [] action \in DocActions -> "docWrite"
    [] action = "calendar.create" -> "calendarCreate"
    [] OTHER -> "sheetsRead"

\* The provider operations that write: sheetsAppend, sheetsUpdateCell,
\* driveCreateDoc, docsBatchUpdate, calendarCreate.
WriteOps == {"sheetsAppend", "sheetsUpdate", "docCreate", "docWrite", "calendarCreate"}

\* The search an action starts with.
FirstSearch(r) == IF r.body.folderName THEN "folderSearch" ELSE "fileSearch"

\* An action of api/workspace.js up to its first await.
WsDispatch(r) ==
  CASE r.action = "sheets.read" ->
         IF ~r.body.fileName THEN Respond(r, 400, "absent", "")
         ELSE BeginCall(r, IF r.body.folderName THEN "folderSearch" ELSE "fileSearch")
    [] r.action = "sheets.appendrow" ->
         IF ~r.body.fileName THEN Respond(r, 400, "absent", "")
         ELSE IF ~r.body.values THEN Respond(r, 400, "absent", "")
         ELSE BeginCall(r, IF r.body.folderName THEN "folderSearch" ELSE "fileSearch")
    [] r.action = "sheets.updatecell" ->
         IF ~r.body.fileName THEN Respond(r, 400, "absent", "")
         ELSE IF Trim(r.body.cell) = "" THEN Respond(r, 400, "absent", "")
         ELSE BeginCall(r, FirstSearch(r))
    [] r.action = "docs.createappend" ->
         IF Trim(r.body.docName) = "" THEN Respond(r, 400, "absent", "")
         ELSE IF r.body.text = "" THEN Respond(r, 400, "absent", "")
         ELSE BeginCall(r, FirstSearch(r))
    [] r.action = "calendar.create" ->
         IF Trim(r.body.summary) = "" THEN Respond(r, 400, "false", "")
         ELSE IF Trim(r.body.start) = "" THEN Respond(r, 400, "false", "")
         ELSE BeginCall(r, "calendarCreate")
    [] r.action = "drive.listroot" -> BeginCall(r, "driveList")
    [] OTHER -> Respond(r, 400, "absent", "")

\* handleReadBySearch, handleAppend and handleDocAppend of
\* api/google_sheets_docs.ts up to their first await.
GsdDispatch(r) ==
  CASE r.action = "read_by_search" ->
         IF ~r.body.fileName THEN Respond(r, 400, "absent", "")
         ELSE BeginCall(r, FirstSearch(r))
    [] r.action = "append" ->
         IF ~r.body.fileName THEN Respond(r, 400, "absent", "")
         ELSE IF ~r.body.row THEN Respond(r, 400, "absent", "")
         ELSE BeginCall(r, FirstSearch(r))
    [] r.action = "doc_append" ->
         IF Trim(r.body.docName) = "" THEN Respond(r, 400, "absent", "")
         ELSE IF r.body.text = "" THEN Respond(r, 400, "absent", "")
         ELSE BeginCall(r, FirstSearch(r))
    [] OTHER -> Respond(r, 400, "absent", "")

\* handler of api/google_sheets_docs.ts up to its first await.
GsdHandler(r) ==
  IF r.method = "OPTIONS" THEN Respond(r, 204, "absent", "")
  ELSE IF r.method # "POST" THEN Respond(r, 405, "absent", "")
  ELSE IF ~(r.tokens0.has /\ r.tokens0.at # 0) THEN Respond(r, 401, "absent", "")
  ELSE GsdDispatch([r EXCEPT !.tokens = r.tokens0])

\* Mutant: the router dispatches without looking at the credential cookie.
WsHandlerNoAuth(r) ==
  IF r.method = "OPTIONS" THEN Respond(r, 204, "absent", "")
  ELSE IF r.method # "POST" THEN Respond(r, 405, "absent", "")
  ELSE WsDispatch([r EXCEPT !.tokens = r.tokens0])

\* handler of api/workspace.js up to its first await.
WsHandler(r) ==
  IF r.method = "OPTIONS" THEN Respond(r, 204, "absent", "")
  ELSE IF r.method # "POST" THEN Respond(r, 405, "absent", "")
  ELSE IF ~(r.tokens0.has /\ r.tokens0.at # 0) THEN Respond(r, 401, "absent", "")
  ELSE WsDispatch([r EXCEPT !.tokens = r.tokens0])

\* handler of api/sheets/read_by_search.ts up to its first await.
RbsHandler(r) ==
  IF r.method = "OPTIONS" THEN Respond(r, 204, "absent", "")
  ELSE IF r.method # "POST" THEN Respond(r, 405, "absent", "")
  ELSE IF ~(r.tokens0.has /\ r.tokens0.at # 0) THEN Respond(r, 401, "absent", "")
  ELSE IF ~r.body.fileName THEN Respond(r, 400, "absent", "")
  ELSE BeginCall([r EXCEPT !.tokens = r.tokens0],
                 IF r.body.folderName THEN "folderSearch" ELSE "fileSearch")

\* The document driveCreateDoc answers with: { id: created.data.id, name }.
CreatedDoc == [id |-> MaxList + 1, name |-> Target, mt |-> 0]

\* The candidate the handler works on: handleAppend takes files[0] of the
\* answer as it came, every other handler sorts first.
PickFile(r, cands) ==
  IF r.ep = "gsd" /\ r.action = "append" THEN cands[1]
  ELSE ResolveFileByName(cands, Target)

\* Mutant: a search without candidate falls through to the action's provider
\* operation.
NotFoundFallsThrough(r) == BeginCall(r, FinalOp(r.action))

\* if (!file) return json(res, 404, {error: "No spreadsheet found ..."})
NotFound(r) == Respond(r, 404, "absent", "")

\* Mutant: every handler creates what the search did not find.
CreatesAlways(r) == TRUE

\* Only actDocsCreateAppend / handleDocAppend create the document the search
\* did not find.
CreatesWhenMissing(r) == r.action \in DocActions

\* Mutant: a folder search without result ends the request with 404.
AfterFoldersStrict(r, cands) ==
  IF cands = <<>> THEN NotFound(r)
  ELSE BeginCall([r EXCEPT !.folderId = ResolveFileByName(cands, Target).id], "fileSearch")

\* resolveFolderId after a successful folder search: the id of the first
\* folder in sort order, undefined (0) without folders; the file search
\* follows, with `'<id>' in parents` only when there is an id.
AfterFolders(r, cands) ==
  BeginCall([r EXCEPT !.folderId = ResolveFileByName(cands, Target).id], "fileSearch")

\* The handler after a wrapper call for r.op returned status st and the
\* search answer cands (resolveFolderId, resolveFileByName and the action
\* bodies of api/workspace.js; the try block of read_by_search.ts).
AfterCall(r0, st, cands) ==
  LET r == IF IsSearch(r0.op) /\ IsOk(st)
             THEN Logged(r0, Ev("files", r0, 0, Len(cands))) ELSE r0
  IN
  CASE r.op = "folderSearch" ->
         IF ~IsOk(st) THEN Respond(r, st, "absent", "")
         ELSE AfterFolders(r, cands)
    [] r.op = "fileSearch" ->
         IF ~IsOk(st) THEN Respond(r, st, "absent", "")
         ELSE IF cands = <<>>
           THEN IF CreatesWhenMissing(r) THEN BeginCall(r, "docCreate")
                ELSE NotFound(r)
         ELSE BeginCall([r EXCEPT !.file = PickFile(r, cands)], FinalOp(r.action))
    [] r.op = "docCreate" ->
         IF ~IsOk(st) THEN Respond(r, st, "absent", "")
         ELSE BeginCall([r EXCEPT !.file = CreatedDoc], "docWrite")
    [] r.op = "calendarCreate" ->
         IF ~IsOk(st) THEN Respond(r, st, "false", "")
         ELSE Respond(r, 200, "true", "")
    [] OTHER ->
         IF ~IsOk(st) THEN Respond(r, st, "absent", "")
         ELSE Respond(r, 200, "true", "")

\* What the caller of the wrapper keeps of the credential set it returns:
\* api/workspace.js drops it (resolveFolderId returns an id, the actions
\* ignore r.tokens); read_by_search.ts writes the cookie when refreshed and
\* threads the tokens into the next call.
KeepTokens(r, refreshed) ==
  IF r.ep = "rbs"
    THEN [(IF refreshed THEN SetTokensCookie(r, r.wt) ELSE r) EXCEPT !.tokens = r.wt]
    ELSE r

\* Mutant: a second 401 starts another refresh instead of being returned.
ReturnRetryLoop(r, st, cands, refreshed) ==
  IF refreshed /\ st = 401 THEN [r EXCEPT !.pc = "refresh"]
  ELSE AfterCall(KeepTokens(Logged(r, Ev("ret", r, r.wt.at, st)), refreshed), st, cands)

\* The wrapper returns {tokens, ...out}.
Return(r, st, cands, refreshed) ==
  AfterCall(KeepTokens(Logged(r, Ev("ret", r, r.wt.at, st)), refreshed), st, cands)

\* The wrapper throws (refreshAccessToken threw).
Throw(r) ==
  LET r1 == Logged(r, Ev("throw", r, r.wt.at, 0))
  IN IF r.ep = "gsd" THEN Uncaught(r1) ELSE Caught(r1)

\* Mutant: the guard on the refresh token is missing.
CanRefreshAlways(tokens) == TRUE

\* refreshAccessToken line 26 / 49: without refresh token it throws before
\* any fetch.
CanRefresh(tokens) == tokens.rt # 0

\* Mutant: the refreshed credential set is not written to the cookie.
AfterRefreshNoWrite(r, nt) ==
  [Logged([r EXCEPT !.wt = nt], Ev("refreshOk", r, nt.at, 0)) EXCEPT !.pc = "call2"]

\* withRefresh after refreshAccessToken returned: api/workspace.js writes
\* the cookie before the retry.
AfterRefresh(r, nt) ==
  LET r1 == Logged([r EXCEPT !.wt = nt], Ev("refreshOk", r, nt.at, 0))
      r2 == IF r.ep \in {"workspace", "gsd"} THEN SetTokensCookie(r1, nt) ELSE r1
  IN [r2 EXCEPT !.pc = "call2"]

\* Mutant: every failure of the first call starts a refresh, not only 401.
AfterFirstAnyFailure(r, st, cands) ==
  IF IsOk(st) THEN Return(r, st, cands, FALSE)
  ELSE IF ~CanRefresh(r.wt) THEN Throw(Logged(r, Ev("noRefreshToken", r, r.wt.at, 0)))
  ELSE [r EXCEPT !.pc = "refresh"]

\* withRefresh after the first builder call answered st.
AfterFirst(r, st, cands) ==
  IF IsOk(st) \/ st # 401 THEN Return(r, st, cands, FALSE)
  ELSE IF ~CanRefresh(r.wt) THEN Throw(Logged(r, Ev("noRefreshToken", r, r.wt.at, 0)))
  ELSE [r EXCEPT !.pc = "refresh"]

\* Mutant: a failed refresh is swallowed and the call retried with the
\* stale access token.
AfterTokenSwallow(r, data, t) ==
  LET r1 == Logged(r, Ev("token", r, data.at, TokenStatus(data)))
  IN IF ~RefreshAccepted(data)
       THEN SetTokensCookie([Logged(r1, Ev("refreshRejected", r, r.wt.at, 0))
                              EXCEPT !.pc = "call2"], r.wt)
       ELSE AfterRefresh(r1, RefreshedTokens(r.wt, data, t))

\* refreshAccessToken after the token endpoint answered data.
AfterToken(r, data, t) ==
  LET r1 == Logged(r, Ev("token", r, data.at, TokenStatus(data)))
  IN IF ~RefreshAccepted(data) THEN Throw(Logged(r1, Ev("refreshRejected", r, r.wt.at, 0)))
     ELSE AfterRefresh(r1, RefreshedTokens(r.wt, data, t))

(* --------------------------- api/google.js ------------------------------ *)
GoogleOps == {"callback", "status", "me", "logout"}

\* refreshIfNeeded line 59
NeedsRefresh(cur, t) ==
  cur.at = 0 \/ (cur.exp # 0 /\ cur.exp - t < RefreshSkew)

\* op=status / op=me after refreshIfNeeded returned r.tokens.
AfterRefreshIfNeeded(r) ==
  IF r.action = "status"
    THEN IF ~r.tokens.has \/ r.tokens.at = 0 THEN Respond(r, 200, "absent", "disconnected")
         ELSE Respond(r, 200, "absent", IF r.rerr THEN "refresh_problem" ELSE "connected")
    ELSE IF ~r.tokens.has \/ r.tokens.at = 0 THEN Respond(r, 401, "absent", "not_connected")
         ELSE [r EXCEPT !.pc = "gCall", !.op = "userinfo"]

\* handler of api/google.js up to its first await.
GoogleHandler(r, hasCode, t) ==
  CASE r.action = "callback" ->
         IF ~hasCode THEN Respond(r, 400, "absent", "")
         ELSE [r EXCEPT !.pc = "gExchange", !.op = "exchange"]
    [] r.action = "logout" ->
         Respond([r EXCEPT !.hdr = NoCred, !.hdrSet = TRUE], 200, "true", "")
    [] OTHER ->
         LET cur == r.tokens0
             r1 == [r EXCEPT !.tokens = cur, !.op = "refreshIfNeeded"]
         IN IF ~cur.has THEN AfterRefreshIfNeeded(r1)
            ELSE IF ~NeedsRefresh(cur, t) THEN AfterRefreshIfNeeded(r1)
            ELSE IF cur.rt = 0 THEN AfterRefreshIfNeeded(r1)
            ELSE [r1 EXCEPT !.pc = "gRefresh"]

\* refreshIfNeeded after the token endpoint answered data.
AfterGoogleToken(r, data, t) ==
  LET r1 == Logged(r, Ev("token", r, data.at, TokenStatus(data)))
      merged == GoogleRefreshed(r.tokens, data, t)
  IN IF ~data.ok THEN AfterRefreshIfNeeded([r1 EXCEPT !.rerr = TRUE])
     ELSE AfterRefreshIfNeeded(SetTokensCookie([r1 EXCEPT !.tokens = merged], merged))

\* op=callback after the token endpoint answered data.
AfterExchange(r, data, t) ==
  LET r1 == Logged(r, Ev("token", r, data.at, TokenStatus(data)))
  IN IF ~data.ok THEN Respond(r1, 400, "absent", "")
     ELSE Respond(SetTokensCookie(r1, WriteTokens(data, t)), 302, "absent", "")

(* ------------------------- api/realtime/offer --------------------------- *)
\* The realtime offer handlers: api/realtime/offer.ts (OpenAI), the Gemini
\* variant of api/realtime/offer.js (lines 6-50), the earlier Gemini
\* variant without API key check, the OpenAI variant of api/realtime/offer.js
\* (lines 144-198) and the App Router handler app/api/realtime/offer/route.ts.
OfferVariants == {"offer.ts", "offer.js", "offer.gemini", "offer.js.openai", "route.ts"}

\* The handlers that proxy to the OpenAI realtime endpoint.
OpenAiVariants == {"offer.ts", "offer.js.openai", "route.ts"}

ContentTypes ==
  {"", "application/sdp", "application/sdp; charset=utf-8", "application/json"}

\* ct.includes('application/sdp')
IncludesSdp(ct) == ct \in {"application/sdp", "application/sdp; charset=utf-8"}

\* No Origin header, the configured main origin, a preview deployment of
\* the project, or another site.
Origins == {"", "main", "preview", "other"}

Offers == [ct : ContentTypes, origin : Origins, apiKey : BOOLEAN, mainOrigin : BOOLEAN]

\* isAllowedOrigin(origin)
IsAllowedOrigin(o) ==
  \/ ~o.mainOrigin
  \/ o.origin = ""
  \/ o.origin = "main"
  \/ o.origin = "preview"

\* Only the OpenAI handlers test the Content-Type.
ExpectsSdp(r) == r.action \in OpenAiVariants

\* A realtime offer handler up to its outbound fetch.
OfferHandler(r) ==
  LET proxy == [r EXCEPT !.pc = "proxy", !.op = "realtime"]
  IN CASE r.action = "offer.ts" ->
            IF r.method # "POST" THEN Respond(r, 405, "absent", "")
            ELSE IF ~IsAllowedOrigin(r.offer) THEN Respond(r, 403, "absent", "")
            ELSE IF ~r.offer.apiKey THEN Respond(r, 500, "absent", "")
            ELSE IF ExpectsSdp(r) /\ ~IncludesSdp(r.offer.ct)
              THEN Respond(r, 400, "absent", "")
            ELSE proxy
       [] r.action = "offer.js.openai" ->
            IF r.method = "OPTIONS" THEN Respond(r, 204, "absent", "")
            ELSE IF r.method # "POST" THEN Respond(r, 405, "absent", "")
            ELSE IF ~IsAllowedOrigin(r.offer) THEN Respond(r, 403, "absent", "")
            ELSE IF ~r.offer.apiKey THEN Respond(r, 500, "absent", "")
            ELSE IF ExpectsSdp(r) /\ ~IncludesSdp(r.offer.ct)
              THEN Respond(r, 400, "absent", "")
            ELSE proxy
       [] r.action = "route.ts" ->
            IF r.method # "POST" THEN Respond(r, 405, "absent", "")
            ELSE IF r.offer.mainOrigin /\ r.offer.origin # "main"
              THEN Respond(r, 403, "absent", "")
            ELSE IF ~r.offer.apiKey THEN Respond(r, 500, "absent", "")
            ELSE IF ExpectsSdp(r) /\ ~IncludesSdp(r.offer.ct)
              THEN Respond(r, 400, "absent", "")
            ELSE proxy
       [] r.action = "offer.js" ->
            IF ~r.offer.apiKey THEN Respond(r, 500, "absent", "")
            ELSE IF r.method # "POST" THEN Respond(r, 405, "absent", "")
            ELSE IF ExpectsSdp(r) /\ ~IncludesSdp(r.offer.ct)
              THEN Respond(r, 400, "absent", "")
            ELSE proxy
       [] OTHER ->
            IF r.method # "POST" THEN Respond(r, 405, "absent", "")
            ELSE IF ExpectsSdp(r) /\ ~IncludesSdp(r.offer.ct)
              THEN Respond(r, 400, "absent", "")
            ELSE proxy

\* The handler after the upstream answered st (0: the fetch was rejected and
\* the catch block answers 500).
AfterProxy(r, st) ==
  LET r1 == Logged(r, Ev("call", r, 0, st))
  IN IF st = 0 THEN Respond(r1, 500, "absent", "")
     ELSE Respond(r1, st, "absent", "")

(* --------------------------- api/drive/list.ts -------------------------- *)
\* handler of api/drive/list.ts up to its fetch: readTokens throws without
\* cookie and the catch block answers 500; the access token is not tested.
DriveListHandler(r) ==
  IF ~r.tokens0.has THEN Respond(r, 500, "absent", "")
  ELSE [r EXCEPT !.pc = "list", !.op = "driveList", !.tokens = r.tokens0]

\* res.status(r.ok ? 200 : 400).json(data)
AfterDriveList(r, st) ==
  Respond(Logged(r, Ev("call", r, r.tokens.at, st)),
          IF IsOk(st) THEN 200 ELSE 400, "absent", "")

(* ------------------------------ actions --------------------------------- *)
\* Mutant: the browser drops the response's Set-Cookie.
CommitDropsSetCookie(p, r) ==
  /\ req' = [req EXCEPT ![p] = r]
  /\ UNCHANGED <<cookie, now, fin, fout>>

\* The browser stores the response's Set-Cookie when the response arrives.
Commit(p, r) ==
  /\ req' = [req EXCEPT ![p] = r]
  /\ cookie' = IF r.pc = "done" /\ r.hdrSet THEN r.hdr ELSE cookie
  /\ UNCHANGED <<now, fin, fout>>

Free(p) == req[p].pc = "idle"

\* The method is checked first: for other methods nothing else is read.
RequestsFor(m, actions) ==
  IF m = "POST"
    THEN UNION {{[action |-> a, body |-> b] : b \in BodiesFor(a)} : a \in actions}
  ELSE {[action |-> "unknown", body |-> NoBody]}

StartWorkspace(p) ==
  /\ Free(p)
  /\ \E m \in Methods :
       \E q \in RequestsFor(m, WsActions) :
         /\ q.body \in BodiesFor(q.action)
         /\ Commit(p, WsHandler([Idle EXCEPT !.ep = "workspace", !.method = m,
                                             !.action = q.action, !.body = q.body,
                                             !.tokens0 = cookie]))

StartReadBySearch(p) ==
  /\ Free(p)
  /\ \E m \in Methods :
       \E q \in RequestsFor(m, {"sheets.read"}) :
         /\ q.body \in BodiesFor(q.action)
         /\ Commit(p, RbsHandler([Idle EXCEPT !.ep = "rbs", !.method = m,
                                              !.action = q.action, !.body = q.body,
                                              !.tokens0 = cookie]))

StartSheetsDocs(p) ==
  /\ Free(p)
  /\ \E m \in Methods :
       \E q \in RequestsFor(m, GsdActions) :
         /\ q.body \in BodiesFor(q.action)
         /\ Commit(p, GsdHandler([Idle EXCEPT !.ep = "gsd", !.method = m,
                                              !.action = q.action, !.body = q.body,
                                              !.tokens0 = cookie]))

StartOffer(p) ==
  /\ Free(p)
  /\ \E v \in OfferVariants, m \in Methods, o \in Offers :
       Commit(p, OfferHandler([Idle EXCEPT !.ep = "offer", !.action = v,
                                           !.method = m, !.offer = o]))

\* The upstream realtime endpoint answers the proxied offer.
OfferProxy(p) ==
  /\ req[p].pc = "proxy"
  /\ \E st \in Statuses \cup {0} : Commit(p, AfterProxy(req[p], st))

StartDriveList(p) ==
  /\ Free(p)
  /\ Commit(p, DriveListHandler([Idle EXCEPT !.ep = "drivelist", !.method = "GET",
                                             !.action = "list", !.tokens0 = cookie]))

\* The Drive files endpoint answers the listing.
DriveListAnswer(p) ==
  /\ req[p].pc = "list"
  /\ \E st \in Statuses : Commit(p, AfterDriveList(req[p], st))

StartGoogle(p) ==
  /\ Free(p)
  /\ \E o \in GoogleOps, hasCode \in BOOLEAN :
       /\ (o # "callback") => hasCode
       /\ Commit(p, GoogleHandler([Idle EXCEPT !.ep = "google", !.method = "GET",
                                               !.action = o, !.tokens0 = cookie],
                                  hasCode, now))

\* The first builder invocation of a wrapper call is answered.
Call1(p) ==
  /\ req[p].pc = "call1"
  /\ \E st \in Statuses :
       \E cands \in Answers(req[p].op, st) :
         Commit(p, AfterFirst(Logged(req[p], Ev("call", req[p], req[p].wt.at, st)),
                              st, cands))

\* The token endpoint answers the wrapper's refresh.
Refresh(p) ==
  /\ req[p].pc = "refresh"
  /\ \E data \in TokenResponses : Commit(p, AfterToken(req[p], data, now))

\* The second builder invocation of a wrapper call is answered.
Call2(p) ==
  /\ req[p].pc = "call2"
  /\ \E st \in Statuses :
       \E cands \in Answers(req[p].op, st) :
         Commit(p, Return(Logged(req[p], Ev("call", req[p], req[p].wt.at, st)),
                          st, cands, TRUE))

GoogleRefresh(p) ==
  /\ req[p].pc = "gRefresh"
  /\ \E data \in TokenResponses : Commit(p, AfterGoogleToken(req[p], data, now))

GoogleExchange(p) ==
  /\ req[p].pc = "gExchange"
  /\ \E data \in GrantResponses : Commit(p, AfterExchange(req[p], data, now))

\* op=me: the userinfo probe is answered.
GoogleCall(p) ==
  /\ req[p].pc = "gCall"
  /\ \E st \in Statuses :
       Commit(p, Respond(Logged(req[p], Ev("call", req[p], req[p].tokens.at, st)),
                         IF IsOk(st) THEN 200 ELSE 400, "absent", ""))

\* The response has been delivered; the handler keeps nothing of it.
Finish(p) ==
  /\ req[p].pc = "done"
  /\ req' = [req EXCEPT ![p] = Idle]
  /\ UNCHANGED <<cookie, now, fin, fout>>

Tick ==
  /\ now < MaxTime
  /\ \A p \in Procs : Free(p)
  /\ now' = now + 1
  /\ UNCHANGED <<cookie, req, fin, fout>>

NoInput == [files |-> <<>>, name |-> ""]
NoOutput == [by |-> "none", file |-> NoFile]

Init ==
  /\ cookie = NoCred
  /\ now = 0
  /\ req = [p \in Procs |-> Idle]
  /\ fin = NoInput
  /\ fout = NoOutput

Step(p) ==
  \/ StartWorkspace(p)
  \/ StartReadBySearch(p)
  \/ StartSheetsDocs(p)
  \/ StartOffer(p)
  \/ StartDriveList(p)
  \/ DriveListAnswer(p)
  \/ OfferProxy(p)
  \/ StartGoogle(p)
  \/ Call1(p)
  \/ Refresh(p)
  \/ Call2(p)
  \/ GoogleRefresh(p)
  \/ GoogleExchange(p)
  \/ GoogleCall(p)
  \/ Finish(p)

Next == (\E p \in SeqProcs : Step(p)) \/ Tick

Spec == Init /\ [][Next]_vars


(* ---------------------- the resolver, on its own ------------------------ *)
\* resolveSheetId: files.find(f => f.name === fileName) || files[0]; it
\* throws SHEET_NOT_FOUND (NoFile) when there is no candidate.
ResolveSheetId(files, name) ==
  LET exact == {i \in 1..Len(files) : files[i].name = name}
  IN IF files = <<>> THEN NoFile
     ELSE IF exact # {} THEN files[CHOOSE i \in exact : \A j \in exact : i <= j]
     ELSE files[1]

InitResolve ==
  /\ cookie = NoCred
  /\ now = 0
  /\ req = [p \in Procs |-> Idle]
  /\ fin \in {[files |-> f, name |-> Target] : f \in CandLists(Names, MaxList)}
  /\ fout = NoOutput

SortResolve ==
  /\ fout.by = "none"
  /\ fout' = [by |-> "sort", file |-> ResolveFileByName(fin.files, fin.name)]
  /\ UNCHANGED <<cookie, now, req, fin>>

FindResolve ==
  /\ fout.by = "none"
  /\ fout' = [by |-> "find", file |-> ResolveSheetId(fin.files, fin.name)]
  /\ UNCHANGED <<cookie, now, req, fin>>

NextResolve == SortResolve \/ FindResolve

SpecResolve == InitResolve /\ [][NextResolve]_vars

(* ------------- the file a read and an append work on ------------------- *)
\* The same answer of the file search is given to handleReadBySearch and to
\* handleAppend of api/google_sheets_docs.ts.
GsdRequest(action) == [Idle EXCEPT !.ep = "gsd", !.method = "POST", !.action = action]

InitSelect ==
  /\ cookie = NoCred
  /\ now = 0
  /\ req = [p \in Procs |-> Idle]
  /\ fin \in {[files |-> f, name |-> Target] : f \in CandLists(Names, MaxList) \ {<<>>}}
  /\ fout = [read |-> NoFile, append |-> NoFile]

\* handleReadBySearch: files.sort(...); spreadsheetId = files[0].id
ReadSelect ==
  /\ fout.read = NoFile
  /\ fout' = [fout EXCEPT !.read = PickFile(GsdRequest("read_by_search"), fin.files)]
  /\ UNCHANGED <<cookie, now, req, fin>>

\* handleAppend: spreadsheetId = files[0].id
AppendSelect ==
  /\ fout.append = NoFile
  /\ fout' = [fout EXCEPT !.append = PickFile(GsdRequest("append"), fin.files)]
  /\ UNCHANGED <<cookie, now, req, fin>>

NextSelect == ReadSelect \/ AppendSelect

SpecSelect == InitSelect /\ [][NextSelect]_vars

(* ------------------ the resolver on two provider orders ----------------- *)
\* The orders in which the provider can return the candidates of one answer.
Orderings(files) ==
  {[i \in 1..Len(files) |-> files[q[i]]] :
     q \in {f \in [1..Len(files) -> 1..Len(files)] :
              \A i, j \in 1..Len(files) : f[i] = f[j] => i = j}}

\* The same candidates are answered twice: in the order files and in the
\* order again.
InitOrder ==
  /\ cookie = NoCred
  /\ now = 0
  /\ req = [p \in Procs |-> Idle]
  /\ fin \in UNION {{[files |-> f, again |-> g, name |-> Target] : g \in Orderings(f)} :
                      f \in CandLists(Names, MaxList) \ {<<>>}}
  /\ fout = [by |-> "none", file |-> NoFile, again |-> NoFile]

SortOrder ==
  /\ fout.by = "none"
  /\ fout' = [by |-> "sort", file |-> ResolveFileByName(fin.files, fin.name),
              again |-> ResolveFileByName(fin.again, fin.name)]
  /\ UNCHANGED <<cookie, now, req, fin>>

FindOrder ==
  /\ fout.by = "none"
  /\ fout' = [by |-> "find", file |-> ResolveSheetId(fin.files, fin.name),
              again |-> ResolveSheetId(fin.again, fin.name)]
  /\ UNCHANGED <<cookie, now, req, fin>>

NextOrder == SortOrder \/ FindOrder

SpecOrder == InitOrder /\ [][NextOrder]_vars

(* ---------------------- the refresher, on its own ----------------------- *)
\* The credential sets the consent callback stores.
StoredCreds ==
  {WriteTokens(d, t) : d \in {g \in GrantResponses : g.ok}, t \in 0..MaxTime}

NoData == [ok |-> FALSE, at |-> 0, rt |-> 0, life |-> 0]

InitRefresher ==
  /\ cookie = NoCred
  /\ now = 0
  /\ req = [p \in Procs |-> Idle]
  /\ fin = [tokens |-> NoCred, data |-> NoData, t |-> 0]
  /\ fout \in {[by |-> "none", tokens |-> c] : c \in StoredCreds}

\* A successful refreshAccessToken on the last credential set.
WrapperRefresh ==
  \E data \in TokenResponses, t \in fin.t..MaxTime :
    /\ fout.tokens.at # 0
    /\ CanRefresh(fout.tokens)
    /\ RefreshAccepted(data)
    /\ fin' = [tokens |-> fout.tokens, data |-> data, t |-> t]
    /\ fout' = [by |-> "refreshAccessToken",
                tokens |-> RefreshedTokens(fout.tokens, data, t)]
    /\ UNCHANGED <<cookie, now, req>>

\* A successful refresh of refreshIfNeeded on the last credential set.
StatusRefresh ==
  \E data \in TokenResponses, t \in fin.t..MaxTime :
    /\ NeedsRefresh(fout.tokens, t)
    /\ fout.tokens.rt # 0
    /\ data.ok
    /\ fin' = [tokens |-> fout.tokens, data |-> data, t |-> t]
    /\ fout' = [by |-> "refreshIfNeeded",
                tokens |-> GoogleRefreshed(fout.tokens, data, t)]
    /\ UNCHANGED <<cookie, now, req>>

NextRefresher == WrapperRefresh \/ StatusRefresh

SpecRefresher == InitRefresher /\ [][NextRefresher]_vars


(* ------------------- two requests of one browser session ---------------- *)
\* The browser holds a credential set with a refresh token and sends two
\* requests that may overlap: each reads the cookie its request carried and
\* no handler locks anything. Each process sends one request.
InitRace ==
  /\ cookie \in {c \in StoredCreds : c.at # 0 /\ c.rt # 0}
  /\ now \in 0..MaxTime
  /\ req = [p \in Procs |-> Idle]
  /\ fin = NoInput
  /\ fout = NoOutput

\* POST /api/workspace {action: "drive.listroot"}: one wrapper call.
RaceWorkspace(p) ==
  /\ Free(p)
  /\ Commit(p, WsHandler([Idle EXCEPT !.ep = "workspace", !.method = "POST",
                                      !.action = "drive.listroot", !.tokens0 = cookie]))

\* GET /api/google?op=status: refreshIfNeeded.
RaceGoogle(p) ==
  /\ Free(p)
  /\ Commit(p, GoogleHandler([Idle EXCEPT !.ep = "google", !.method = "GET",
                                          !.action = "status", !.tokens0 = cookie],
                             TRUE, now))

NextRace ==
  \E p \in Procs :
    \/ RaceWorkspace(p)
    \/ RaceGoogle(p)
    \/ Call1(p)
    \/ Refresh(p)
    \/ Call2(p)
    \/ GoogleRefresh(p)

SpecRace == InitRace /\ [][NextRace]_vars

(* ------------------------ the cookie, on its own ------------------------ *)
\* Texts are sequences of symbols: the characters of Chars, the JSON and
\* cookie punctuation, digits, and words without reserved characters (field
\* names, cookie attributes), which pass through every conversion unchanged.
Chars == {"a", ";", "=", "%", " "}

DigitSyms == <<"0", "1", "2", "3", "4", "5", "6", "7", "8", "9">>

\* A field of a credential set: undefined, a string or a number.
Absent == [t |-> "undefined", s |-> <<>>]

Str(s) == [t |-> "str", s |-> s]

Num(n) == [t |-> "num", s |-> <<DigitSyms[n + 1]>>]

\* The fields of a credential set, in the order the code writes them.
FieldOrder ==
  <<"access_token", "refresh_token", "scope", "token_type", "expiry_date", "id_token">>

FieldNames == {FieldOrder[i] : i \in 1..Len(FieldOrder)}

\* An object as JSON sees it: the fields that are not undefined.
Defined(c) == [k \in {x \in FieldNames : c[x].t # "undefined"} |-> c[k]]

NoObject == [k \in {} |-> Absent]

\* null (no cookie, URIError or SyntaxError caught) or the parsed object.
Null == [ok |-> FALSE, v |-> NoObject]

Object(v) == [ok |-> TRUE, v |-> v]

RECURSIVE JoinMembers(_, _)
JoinMembers(c, keys) ==
  IF keys = <<>> THEN <<>>
  ELSE LET k == Head(keys)
           value == IF c[k].t = "str" THEN <<"\"">> \o c[k].s \o <<"\"">> ELSE c[k].s
       IN <<"\"", k, "\"", ":">> \o value
            \o (IF Len(keys) > 1 THEN <<",">> ELSE <<>>) \o JoinMembers(c, Tail(keys))

\* JSON.stringify(tokens): undefined fields are left out.
JSONStringify(c) ==
  <<"{">> \o JoinMembers(c, SelectSeq(FieldOrder, LAMBDA k : c[k].t # "undefined"))
    \o <<"}">>

\* The characters encodeURIComponent escapes, and their percent codes.
Reserved == {"{", "}", "\"", ":", ",", ";", "=", "%", " "}

PercentCode ==
  [c \in Reserved |->
     CASE c = "{" -> "7B" [] c = "}" -> "7D" [] c = "\"" -> "22" [] c = ":" -> "3A"
       [] c = "," -> "2C" [] c = ";" -> "3B" [] c = "=" -> "3D" [] c = "%" -> "25"
       [] OTHER -> "20"]

PercentCodes == {PercentCode[c] : c \in Reserved}

\* Mutant: the JSON text is put into the cookie as it is.
EncodeNothing(text) == text

RECURSIVE EncodeURIComponent(_)
EncodeURIComponent(text) ==
  IF text = <<>> THEN <<>>
  ELSE (IF Head(text) \in Reserved THEN <<"%", PercentCode[Head(text)]>>
        ELSE <<Head(text)>>) \o EncodeURIComponent(Tail(text))

\* decodeURIComponent(text); a % that no code follows throws URIError, which
\* shows as the symbol "URIError" in the result.
RECURSIVE DecodeURIComponent(_)
DecodeURIComponent(text) ==
  IF text = <<>> THEN <<>>
  ELSE IF Head(text) # "%" THEN <<Head(text)>> \o DecodeURIComponent(Tail(text))
  ELSE IF Len(text) >= 2 /\ text[2] \in PercentCodes
    THEN <<CHOOSE c \in Reserved : PercentCode[c] = text[2]>>
           \o DecodeURIComponent(Tail(Tail(text)))
  ELSE <<"URIError">>

Throws(text) == \E i \in 1..Len(text) : text[i] = "URIError"

\* The length of the longest prefix of text without the symbol stop.
RECURSIVE Until(_, _)
Until(text, stop) ==
  IF text = <<>> \/ Head(text) = stop THEN 0 ELSE 1 + Until(Tail(text), stop)

\* JSON.parse of the members of an object, from position i on; acc holds the
\* fields read so far. A malformed text is a SyntaxError (Null).
RECURSIVE ParseMembers(_, _, _)
ParseMembers(text, i, acc) ==
  IF ~(i + 3 <= Len(text) /\ text[i] = "\"" /\ text[i + 2] = "\"" /\ text[i + 3] = ":")
    THEN Null
  ELSE
    LET k == text[i + 1]
        rest == SubSeq(text, i + 4, Len(text))
        isStr == rest # <<>> /\ Head(rest) = "\""
        n == IF isStr THEN Until(Tail(rest), "\"")
             ELSE Until(rest, ",") 
        m == IF isStr THEN n ELSE IF n < Len(rest) THEN n ELSE Until(rest, "}")
        value == IF isStr THEN Str(SubSeq(rest, 2, m + 1))
                 ELSE [t |-> "num", s |-> SubSeq(rest, 1, m)]
        next == IF isStr THEN i + 4 + m + 2 ELSE i + 4 + m
        digits == \A j \in 1..m : \E d \in 1..10 : rest[j] = DigitSyms[d]
        put == [x \in DOMAIN acc \cup {k} |-> IF x = k THEN value ELSE acc[x]]
    IN IF isStr /\ m + 2 > Len(rest) THEN Null
       ELSE IF ~isStr /\ (m = 0 \/ ~digits) THEN Null
       ELSE IF next > Len(text) THEN Null
       ELSE IF text[next] = "}" THEN (IF next = Len(text) THEN Object(put) ELSE Null)
       ELSE IF text[next] = "," THEN ParseMembers(text, next + 1, put)
       ELSE Null

\* JSON.parse(text) of an object.
JSONParse(text) ==
  IF Len(text) < 2 \/ Head(text) # "{" THEN Null
  ELSE IF Len(text) = 2 THEN (IF text[2] = "}" THEN Object(NoObject) ELSE Null)
  ELSE ParseMembers(text, 2, NoObject)

\* setTokensCookie: the Set-Cookie header.
SetCookieHeader(tokens, isLocal) ==
  <<"gTokens", "=">> \o EncodeURIComponent(JSONStringify(tokens))
    \o <<";", " ", "HttpOnly", ";", " ", "Path", "=", "/", ";", " ", "SameSite", "=", "Lax",
         ";", " ", "Max-Age", "=", "2592000">>
    \o (IF isLocal THEN <<>> ELSE <<";", " ", "Secure">>)

\* writeTokens of api/google.js: the credential set it builds of the
\* provider's answer (and returns) ...
Merged(data, t) ==
  [access_token |-> data.access_token,
   refresh_token |-> data.refresh_token,
   scope |-> data.scope,
   token_type |-> IF data.token_type \in {Absent, Str(<<>>)} THEN Str(<<"Bearer">>)
                  ELSE data.token_type,
   expiry_date |-> IF data.expires_in # 0 THEN Num(t + data.expires_in)
                   ELSE data.expiry_date,
   id_token |-> data.id_token]

\* ... and the Set-Cookie header it sets.
WriteTokensHeader(data, t) ==
  <<"gTokens", "=">> \o EncodeURIComponent(JSONStringify(Merged(data, t)))
    \o <<";", " ", "HttpOnly", ";", " ", "Path", "=", "/", ";", " ", "SameSite", "=", "Lax",
         ";", " ", "Secure", ";", " ", "Max-Age", "=", "2592000">>

\* The browser keeps the name=value pair of a Set-Cookie header ...
CookiePair(header) == SubSeq(header, 1, Until(header, ";"))

\* ... and sends it back in the Cookie header, alone or next to the cookies
\* of other handlers.
CookieHeaders(pair) ==
  {pair, <<"x", "=", "1", ";", " ">> \o pair, pair \o <<";", " ", "x", "=", "1">>}

\* The position before i is the start of the text or follows ; and spaces.
RECURSIVE AfterSeparator(_, _)
AfterSeparator(raw, i) ==
  IF i = 1 THEN TRUE
  ELSE IF raw[i - 1] = ";" THEN TRUE
  ELSE IF raw[i - 1] = " " /\ i > 2 THEN AfterSeparator(raw, i - 1)
  ELSE FALSE

\* getTokensFromCookie: raw.match(/(?:^|;\s*)gTokens=([^;]+)/), then
\* JSON.parse(decodeURIComponent(m[1])), null when that throws.
GetTokensFromCookie(raw) ==
  LET starts == {i \in 1..Len(raw) - 2 :
                   /\ raw[i] = "gTokens" /\ raw[i + 1] = "=" /\ raw[i + 2] # ";"
                   /\ AfterSeparator(raw, i)}
  IN IF starts = {} THEN Null
     ELSE LET i == CHOOSE x \in starts : \A y \in starts : x <= y
              rest == SubSeq(raw, i + 2, Len(raw))
              decoded == DecodeURIComponent(SubSeq(rest, 1, Until(rest, ";")))
          IN IF Throws(decoded) THEN Null ELSE JSONParse(decoded)

\* raw.split(';')
RECURSIVE Split(_, _)
Split(text, sep) ==
  LET n == Until(text, sep)
  IN IF n = Len(text) THEN <<text>>
     ELSE <<SubSeq(text, 1, n)>> \o Split(SubSeq(text, n + 2, Len(text)), sep)

\* p.trim()
RECURSIVE TrimText(_)
TrimText(text) ==
  IF text = <<>> THEN text
  ELSE IF Head(text) = " " THEN TrimText(Tail(text))
  ELSE IF text[Len(text)] = " " THEN TrimText(SubSeq(text, 1, Len(text) - 1))
  ELSE text

\* parseCookie of api/google.js: the [key, value] entries of the header,
\* decoded (Object.fromEntries reads the first two parts of an entry).
ParseCookie(raw) ==
  LET parts == Split(raw, ";")
      Entry(part) == LET kv == Split(TrimText(part), "=")
                     IN [k |-> DecodeURIComponent(kv[1]),
                         has |-> Len(kv) >= 2,
                         v |-> IF Len(kv) >= 2 THEN DecodeURIComponent(kv[2]) ELSE <<>>,
                         thrown |-> \E j \in 1..Len(kv) : Throws(DecodeURIComponent(kv[j]))]
  IN [i \in 1..Len(parts) |-> Entry(parts[i])]

\* readTokens of api/google.js: JSON.parse(cookies.gTokens), null without
\* such a cookie and when anything throws.
ReadTokens(raw) ==
  LET entries == ParseCookie(raw)
      mine == {i \in 1..Len(entries) : entries[i].k = <<"gTokens">>}
  IN IF \E i \in 1..Len(entries) : entries[i].thrown THEN Null
     ELSE IF mine = {} THEN Null
     ELSE LET e == entries[CHOOSE x \in mine : \A y \in mine : y <= x]
          IN IF ~e.has \/ e.v = <<>> THEN Null ELSE JSONParse(e.v)

\* readTokens of api/drive/list.ts: (cookie).match(/gTokens=([^;]+)/), an
\* Error without a match, then JSON.parse(decodeURIComponent(m[1])) with
\* nothing to catch what these throw.
DriveReadTokens(raw) ==
  LET starts == {i \in 1..Len(raw) - 2 :
                   raw[i] = "gTokens" /\ raw[i + 1] = "=" /\ raw[i + 2] # ";"}
  IN IF starts = {} THEN [threw |-> TRUE, v |-> Null]
     ELSE LET i == CHOOSE x \in starts : \A y \in starts : x <= y
              rest == SubSeq(raw, i + 2, Len(raw))
              decoded == DecodeURIComponent(SubSeq(rest, 1, Until(rest, ";")))
              parsed == IF Throws(decoded) THEN Null ELSE JSONParse(decoded)
          IN [threw |-> ~parsed.ok, v |-> parsed]

\* Cookie headers without a credential cookie of the token store: no header,
\* no gTokens cookie, an empty one, one that is no percent-encoding and
\* ones that are no JSON.
OtherHeaders ==
  {<<>>, <<"x", "=", "1">>, <<"gTokens", "=">>, <<"gTokens", "=", "%", "a">>,
   <<"gTokens", "=", "%", "7B">>, <<"x", "=", "1", ";", " ", "gTokens", "=", "a">>}

\* The access tokens of the cookie model: the strings of one to MaxStr
\* characters.
MaxStr == 2

Strings == {Str(x) : x \in SeqsUpTo(Chars, MaxStr) \ {<<>>}}

\* What the token store is handed: credential sets with or without refresh
\* token, expiry, scope and id token, and provider answers, which may lack
\* the token type as well.
CookieTokens ==
  {[access_token |-> a, refresh_token |-> r, scope |-> o.scope,
    token_type |-> k, expiry_date |-> e, id_token |-> o.id_token] :
     a \in Strings, r \in {Absent, Str(<<"a", "/", "=">>)}, e \in {Absent, Num(1)},
     k \in {Absent, Str(<<"Bearer">>)},
     o \in {[scope |-> Absent, id_token |-> Absent],
            [scope |-> Str(<<"a", ":", " ", "a">>), id_token |-> Str(<<"a", "%", "7B">>)]}}

NoText == <<>>

\* fin: the credential set (or provider answer) handed to the token store;
\* fout: the credential set written, the Set-Cookie header, the Cookie header
\* of the next request, and what load returns.
InitCookie ==
  /\ cookie = NoCred
  /\ now = 0
  /\ req = [p \in Procs |-> Idle]
  /\ fin \in {[tokens |-> c, expires_in |-> 0] : c \in CookieTokens}
          \cup {[tokens |-> c, expires_in |-> 1] : c \in CookieTokens}
  /\ fout = [by |-> "none", written |-> NoObject, header |-> NoText, sent |-> FALSE,
             raw |-> NoText, readBy |-> "none", loaded |-> Null, threw |-> FALSE]

\* setTokensCookie(res, req, tokens)
SaveCookie ==
  /\ fout.by = "none"
  /\ ~fout.sent
  /\ fin.expires_in = 0
  /\ \E isLocal \in BOOLEAN :
       fout' = [fout EXCEPT !.by = "setTokensCookie",
                            !.written = Defined(fin.tokens),
                            !.header = SetCookieHeader(fin.tokens, isLocal)]
  /\ UNCHANGED <<cookie, now, req, fin>>

\* writeTokens(res, data) with the provider's answer data
SaveGoogle ==
  /\ fout.by = "none"
  /\ ~fout.sent
  /\ \E t \in 0..MaxTime :
       LET data == [access_token |-> fin.tokens.access_token,
                    refresh_token |-> fin.tokens.refresh_token,
                    scope |-> fin.tokens.scope,
                    token_type |-> fin.tokens.token_type,
                    expiry_date |-> fin.tokens.expiry_date,
                    id_token |-> fin.tokens.id_token,
                    expires_in |-> fin.expires_in]
       IN fout' = [fout EXCEPT !.by = "writeTokens",
                               !.written = Defined(Merged(data, t)),
                               !.header = WriteTokensHeader(data, t)]
  /\ UNCHANGED <<cookie, now, req, fin>>

\* The next request carries the cookie.
SendCookie ==
  /\ fout.by # "none"
  /\ ~fout.sent
  /\ \E raw \in CookieHeaders(CookiePair(fout.header)) :
       fout' = [fout EXCEPT !.raw = raw, !.sent = TRUE]
  /\ UNCHANGED <<cookie, now, req, fin>>

\* A request of a browser that holds no credential cookie, or one that was
\* not written by the token store.
SendOther ==
  /\ fout.by = "none"
  /\ ~fout.sent
  /\ \E raw \in OtherHeaders : fout' = [fout EXCEPT !.raw = raw, !.sent = TRUE]
  /\ UNCHANGED <<cookie, now, req, fin>>

\* getTokensFromCookie(req)
LoadCookie ==
  /\ fout.sent
  /\ fout.readBy = "none"
  /\ fout' = [fout EXCEPT !.readBy = "getTokensFromCookie",
                          !.loaded = GetTokensFromCookie(fout.raw)]
  /\ UNCHANGED <<cookie, now, req, fin>>

\* readTokens(req)
LoadGoogle ==
  /\ fout.sent
  /\ fout.readBy = "none"
  /\ fout' = [fout EXCEPT !.readBy = "readTokens", !.loaded = ReadTokens(fout.raw)]
  /\ UNCHANGED <<cookie, now, req, fin>>

\* readTokens(req) of api/drive/list.ts
LoadDrive ==
  /\ fout.sent
  /\ fout.readBy = "none"
  /\ fout' = [fout EXCEPT !.readBy = "drive.readTokens",
                          !.loaded = DriveReadTokens(fout.raw).v,
                          !.threw = DriveReadTokens(fout.raw).threw]
  /\ UNCHANGED <<cookie, now, req, fin>>

NextCookie ==
  SaveCookie \/ SaveGoogle \/ SendCookie \/ SendOther \/ LoadCookie \/ LoadGoogle \/ LoadDrive

SpecCookie == InitCookie /\ [][NextCookie]_vars

(* ------------------------------ properties ------------------------------ *)
\* The entries of kind k that wrapper call w of request r logged.
EvOf(r, w, k) == SelectSeq(r.log, LAMBDA e : e.w = w /\ e.k = k)

\* The request goes through withRefresh / withAutoRefresh.
Wrapped(r) == r.ep \in {"workspace", "rbs", "gsd"}

\* How often wrapper call w invoked the token refresher.
Refreshes(r, w) ==
  Len(EvOf(r, w, "refreshOk")) + Len(EvOf(r, w, "noRefreshToken"))
    + Len(EvOf(r, w, "refreshRejected"))

\* Wrapper call w has returned or thrown.
Finished(r, w) == Len(EvOf(r, w, "ret")) + Len(EvOf(r, w, "throw")) >= 1

\* Wrapper call w saw the statuses first and then second from the builder.
Saw(r, w, first, second) ==
  LET calls == EvOf(r, w, "call")
  IN Len(calls) = 2 /\ calls[1].st = first /\ calls[2].st = second

\* C1: a wrapper call whose first builder invocation is answered 401 and whose
\* second, post-refresh invocation is answered with success returns that
\* success result, and the token cookie is written exactly once.
C1_RefreshThenSuccess ==
  \A p \in Procs : \A w \in 1..req[p].w :
    Saw(req[p], w, 401, 200) =>
      /\ Len(EvOf(req[p], w, "ret")) = 1
      /\ EvOf(req[p], w, "ret")[1].st = 200
      /\ Len(EvOf(req[p], w, "write")) = 1

C1_Witness ==
  \E p \in Procs : \E w \in 1..req[p].w :
    Saw(req[p], w, 401, 200) /\ Len(EvOf(req[p], w, "ret")) = 1

\* C2: a wrapper call whose two builder invocations are both answered 401
\* returns the second 401, never invokes the builder a third time, and writes
\* the token cookie exactly once, with the refreshed access token.
C2_SecondUnauthorizedReturned ==
  \A p \in Procs : \A w \in 1..req[p].w :
    /\ Len(EvOf(req[p], w, "call")) <= 2
    /\ Saw(req[p], w, 401, 401) =>
         /\ Len(EvOf(req[p], w, "ret")) = 1
         /\ EvOf(req[p], w, "ret")[1].st = 401
         /\ Len(EvOf(req[p], w, "refreshOk")) = 1
         /\ Len(EvOf(req[p], w, "write")) = 1
         /\ EvOf(req[p], w, "write")[1].tok = EvOf(req[p], w, "refreshOk")[1].tok

C2_Witness ==
  \E p \in Procs : \E w \in 1..req[p].w :
    /\ Saw(req[p], w, 401, 401)
    /\ Len(EvOf(req[p], w, "ret")) = 1
    /\ req[p].pc = "done"
    /\ req[p].resp.status = 401

\* Wrapper call w began with a builder invocation answered 401 and is over.
FirstUnauthorized(r, w) ==
  /\ Len(EvOf(r, w, "call")) >= 1
  /\ EvOf(r, w, "call")[1].st = 401
  /\ Finished(r, w)

\* C3 as stated: after a first 401 the wrapper invokes the refresher exactly
\* once, writes the cookie whether or not the refresh succeeded, and invokes
\* the builder a second time, also when the refresh failed.
C3_AsStated ==
  \A p \in Procs : \A w \in 1..req[p].w :
    FirstUnauthorized(req[p], w) =>
      /\ Refreshes(req[p], w) = 1
      /\ Len(EvOf(req[p], w, "write")) = 1
      /\ Len(EvOf(req[p], w, "call")) = 2

\* C3 as amended: after a first 401 the wrapper invokes the refresher exactly
\* once; when the refresh succeeds the refreshed credential set is written
\* once and the builder is invoked exactly once more, with the new access
\* token; when the refresh fails nothing is written, the builder is not
\* invoked again and the wrapper throws.
C3_RefreshOnceThenRetryOrThrow ==
  \A p \in Procs : \A w \in 1..req[p].w :
    FirstUnauthorized(req[p], w) =>
      /\ Refreshes(req[p], w) = 1
      /\ Len(EvOf(req[p], w, "refreshOk")) = 1 =>
           /\ Len(EvOf(req[p], w, "write")) = 1
           /\ Len(EvOf(req[p], w, "call")) = 2
           /\ EvOf(req[p], w, "call")[2].tok = EvOf(req[p], w, "refreshOk")[1].tok
           /\ Len(EvOf(req[p], w, "ret")) = 1
      /\ Len(EvOf(req[p], w, "refreshOk")) = 0 =>
           /\ Len(EvOf(req[p], w, "write")) = 0
           /\ Len(EvOf(req[p], w, "call")) = 1
           /\ Len(EvOf(req[p], w, "throw")) = 1

C3_Witness ==
  \E p \in Procs : \E w \in 1..req[p].w :
    /\ FirstUnauthorized(req[p], w)
    /\ Len(EvOf(req[p], w, "refreshRejected")) = 1
    /\ Len(EvOf(req[p], w, "throw")) = 1
    /\ req[p].resp.status = 500

\* C4: a wrapper call whose first builder invocation is answered with success
\* or with a failure other than 401 returns that answer and the credential
\* set it was given; the builder is invoked once, the refresher and the token
\* endpoint never, and the cookie is not written.
C4_NoRefreshWithout401 ==
  \A p \in Procs : \A w \in 1..req[p].w :
    LET calls == EvOf(req[p], w, "call")
        ret == EvOf(req[p], w, "ret")
    IN (Len(calls) >= 1 /\ calls[1].st # 401) =>
         /\ Len(calls) = 1
         /\ Len(ret) = 1
         /\ ret[1].st = calls[1].st
         /\ ret[1].tok = calls[1].tok
         /\ Refreshes(req[p], w) = 0
         /\ Len(EvOf(req[p], w, "token")) = 0
         /\ Len(EvOf(req[p], w, "write")) = 0
         /\ Len(EvOf(req[p], w, "throw")) = 0

C4_Witness ==
  \E p \in Procs :
    /\ req[p].w = 3
    /\ Len(EvOf(req[p], 3, "call")) = 1
    /\ EvOf(req[p], 1, "call")[1].st = 200
    /\ EvOf(req[p], 3, "call")[1].st = 403
    /\ req[p].resp.status = 403

\* C5: with a credential set that has no refresh token the refresher fails
\* with the no-refresh-token error and the token endpoint is never called.
C5_NoRefreshTokenNoNetwork ==
  \A p \in Procs :
    (Wrapped(req[p]) /\ req[p].tokens0.rt = 0) =>
      /\ \A w \in 1..req[p].w :
           /\ Len(EvOf(req[p], w, "token")) = 0
           /\ Len(EvOf(req[p], w, "refreshOk")) = 0
           /\ Len(EvOf(req[p], w, "refreshRejected")) = 0
           /\ (Len(EvOf(req[p], w, "call")) >= 1 /\ EvOf(req[p], w, "call")[1].st = 401)
                => /\ Len(EvOf(req[p], w, "noRefreshToken")) = 1
                   /\ Len(EvOf(req[p], w, "throw")) = 1

C5_Witness ==
  \E p \in Procs : \E w \in 1..req[p].w :
    /\ Wrapped(req[p])
    /\ req[p].tokens0.rt = 0
    /\ Len(EvOf(req[p], w, "noRefreshToken")) = 1

\* The request addresses an action that requires credentials and is
\* well-formed.
NeedsCredentials(r) ==
  /\ Wrapped(r)
  /\ r.method = "POST"
  /\ \/ r.action = "drive.listroot"
     \/ r.action = "sheets.read" /\ r.body.fileName
     \/ r.action = "sheets.appendrow" /\ r.body.fileName /\ r.body.values

Expired(c, t) == c.exp # 0 /\ c.exp <= t

\* The access token is expired or missing and there is no refresh token.
Unusable(c, t) == (~c.has \/ c.at = 0 \/ Expired(c, t)) /\ c.rt = 0

\* C6: a request to an action that requires credentials, made with a
\* credential set whose access token is expired or missing and that has no
\* refresh token, fails with an authentication error (401) and attempts no
\* provider call.
C6_UnusableNeverCalls ==
  \A p \in Procs :
    (NeedsCredentials(req[p]) /\ Unusable(req[p].tokens0, now)) =>
      /\ \A i \in 1..Len(req[p].log) : req[p].log[i].k # "call"
      /\ req[p].pc = "done" => req[p].resp.status = 401

\* The wrapper calls of request r that invoked the builder twice.
Retried(r) == {w \in 1..r.w : Len(EvOf(r, w, "call")) = 2}

\* The wrapper calls of request r that invoked the refresher.
Refreshing(r) == {w \in 1..r.w : Refreshes(r, w) >= 1}

\* C7: within one request, however many provider calls it issues, at most one
\* token refresh and at most one retried provider call occur.
C7_OneRefreshPerRequest ==
  \A p \in Procs :
    /\ Cardinality(Refreshing(req[p])) <= 1
    /\ Cardinality(Retried(req[p])) <= 1

\* The refresh answer keeps a held refresh token, keeps the previous one when
\* it names none, and replaces the access token.
KeepsRefreshToken ==
  /\ fin.tokens.rt # 0 => fout.tokens.rt # 0
  /\ fin.data.rt = 0 => fout.tokens.rt = fin.tokens.rt
  /\ fout.tokens.at = fin.data.at

\* C8 as stated: after a successful refresh a credential set that held a
\* refresh token still holds it, the previous refresh token is kept when the
\* answer names none, and the access token and the expiry are replaced (the
\* expiry no longer is the one of the previous credential set).
C8_AsStated ==
  fout.by # "none" =>
    /\ KeepsRefreshToken
    /\ fout.tokens.exp = (IF fin.data.life # 0 THEN fin.t + fin.data.life ELSE 0)

\* C8 as amended: after a successful refresh a credential set that held a
\* refresh token still holds it, the previous refresh token is kept when the
\* answer names none, and the access token is replaced; the expiry is
\* replaced by now + lifetime when the answer declares a lifetime, and when
\* it declares none refreshAccessToken keeps the previous expiry while
\* refreshIfNeeded stores none.
C8_RefreshTokenRetained ==
  fout.by # "none" =>
    /\ KeepsRefreshToken
    /\ fin.data.life # 0 => fout.tokens.exp = fin.t + fin.data.life
    /\ (fin.data.life = 0 /\ fout.by = "refreshAccessToken")
         => fout.tokens.exp = fin.tokens.exp
    /\ (fin.data.life = 0 /\ fout.by = "refreshIfNeeded") => fout.tokens.exp = 0

C8_Witness ==
  /\ fout.by = "refreshAccessToken"
  /\ fin.tokens.rt # 0
  /\ fin.data.rt = 0
  /\ fin.data.life = 0
  /\ fin.tokens.exp # 0
  /\ fout.tokens.rt = fin.tokens.rt
  /\ fout.tokens.at # fin.tokens.at

\* Entry e is an answer of the token endpoint to a refresh that is not a
\* success carrying an access token.
RefreshRefused(e) ==
  e.k = "token" /\ e.op # "exchange" /\ (e.st # 200 \/ e.tok = 0)

\* The response reports a failure: a non-success status, or the body of
\* op=status saying connected:false or naming the refresh_problem.
ReportsFailure(resp) ==
  ~IsOk(resp.status) \/ resp.note \in {"disconnected", "refresh_problem"}

\* C9: when the token endpoint answers a refresh with a non-success status or
\* without access token, the request ends in a reported failure: no provider
\* call follows the refused refresh and the response is not a success.
C9_RefreshFailureSurfaced ==
  \A p \in Procs : \A i \in 1..Len(req[p].log) :
    RefreshRefused(req[p].log[i]) =>
      /\ \A j \in (i + 1)..Len(req[p].log) : req[p].log[j].k # "call"
      /\ req[p].pc = "done" => ReportsFailure(req[p].resp)

\* The candidates of the search answer that carry the searched name.
ExactMatches == {i \in 1..Len(fin.files) : fin.files[i].name = fin.name}

\* C10: for a non-empty search answer the resolver selects a candidate whose
\* name equals the searched name exactly (case-sensitive) whenever the answer
\* has one, whatever the modification times.
C10_ExactNamePreferred ==
  (fout.by # "none" /\ ExactMatches # {}) =>
    /\ fout.file.name = fin.name
    /\ \E i \in ExactMatches : fin.files[i] = fout.file

C10_Witness ==
  /\ fout.by = "sort"
  /\ Len(fin.files) = 3
  /\ fin.files[1].name = "budget"
  /\ fin.files[2].name = "Budget Q1"
  /\ fin.files[3].name = fin.name
  /\ fin.files[3].mt < fin.files[1].mt
  /\ fin.files[3].mt < fin.files[2].mt
  /\ fout.file = fin.files[3]

\* The exact matches all carry a modification time, and no two the same.
ExactStampsDiffer ==
  \A i, j \in ExactMatches :
    /\ fin.files[i].mt # 0
    /\ fin.files[i].mt = fin.files[j].mt => i = j

\* C11: when two or more candidates carry the searched name exactly and their
\* modification times differ, the sorting resolver selects the most recently
\* modified of them, in whatever order the provider returned them.
C11_MostRecentExactSelected ==
  (fout.by = "sort" /\ Cardinality(ExactMatches) >= 2 /\ ExactStampsDiffer) =>
    /\ fout.file.name = fin.name
    /\ \A i \in ExactMatches : fin.files[i].mt <= fout.file.mt

\* All candidates of the answer carry a modification time and no two the same.
StampsDiffer ==
  \A i, j \in 1..Len(fin.files) :
    /\ fin.files[i].mt # 0
    /\ fin.files[i].mt = fin.files[j].mt => i = j

\* C12: for two orders of the same candidates with distinct modification
\* times the resolver returns the same candidate.
C12_SameForEveryOrder ==
  (fout.by # "none" /\ StampsDiffer) =>
    /\ fout.file.name = fout.again.name
    /\ fout.file.mt = fout.again.mt

\* The request passed the router's method and credential checks and reached
\* an action handler.
Dispatched(r) ==
  /\ Wrapped(r)
  /\ r.method = "POST"
  /\ r.tokens0.has /\ r.tokens0.at # 0

\* A required field of the action is absent or empty after trimming.
MissingRequired(r) ==
  CASE r.action \in {"sheets.read", "read_by_search"} -> ~r.body.fileName
    [] r.action = "sheets.appendrow" -> ~r.body.fileName \/ ~r.body.values
    [] r.action = "append" -> ~r.body.fileName \/ ~r.body.row
    [] r.action = "sheets.updatecell" -> ~r.body.fileName \/ Trim(r.body.cell) = ""
    [] r.action \in DocActions -> Trim(r.body.docName) = "" \/ Trim(r.body.text) = ""
    [] r.action = "calendar.create" ->
         Trim(r.body.summary) = "" \/ Trim(r.body.start) = ""
    [] OTHER -> FALSE

\* C13: a request that reaches an action handler with a required field absent
\* or empty after trimming is answered 400 with no outbound call at all: no
\* search, no provider call, no token refresh.
C13_ValidationBeforeCalls ==
  \A p \in Procs :
    (Dispatched(req[p]) /\ MissingRequired(req[p])) =>
      /\ req[p].pc = "done"
      /\ req[p].resp.status = 400
      /\ req[p].log = <<>>

\* The actions that read tabular data by name.
ReadActions == {"sheets.read", "read_by_search"}

\* The entries of kind k that request r logged for operation op.
EvOp(r, op, k) == SelectSeq(r.log, LAMBDA e : e.op = op /\ e.k = k)

\* The file search of request r was answered with success and no candidate.
NothingFound(r) ==
  \E i \in 1..Len(r.log) :
    r.log[i].k = "files" /\ r.log[i].op = "fileSearch" /\ r.log[i].st = 0

C15_CreateOnlyInDocAppend ==
  \A p \in Procs :
    LET r == req[p]
        created == SelectSeq(EvOp(r, "docCreate", "call"), LAMBDA e : IsOk(e.st))
    IN /\ r.action \notin DocActions =>
            /\ EvOp(r, "docCreate", "call") = <<>>
            /\ NothingFound(r) => (r.pc = "done" /\ r.resp.status = 404)
       /\ (r.action \in DocActions /\ NothingFound(r)) =>
            /\ Len(created) <= 1
            /\ r.resp.status # 404
            /\ EvOp(r, "docWrite", "call") # <<>> =>
                 (Len(created) = 1 /\ r.file = CreatedDoc)

C15_Witness ==
  \E p \in Procs :
    /\ req[p].action \in DocActions
    /\ NothingFound(req[p])
    /\ Len(EvOp(req[p], "docCreate", "call")) = 1
    /\ Len(EvOp(req[p], "docWrite", "call")) = 1
    /\ req[p].pc = "done"
    /\ req[p].resp.status = 200

\* The request is a realtime negotiation (POST to an offer handler) whose
\* Content-Type is not application/sdp.
OfferWithoutSdp(r) ==
  /\ r.ep = "offer"
  /\ r.method = "POST"
  /\ ~IncludesSdp(r.offer.ct)

\* C16: a realtime negotiation request whose Content-Type is not
\* application/sdp never reaches the outbound proxy call, in every offer
\* handler and whatever the origin and the configured API key are, and it is
\* answered 400 (when the origin is allowed and the API key configured, so
\* that no earlier check answers first).
C16_NoSdpNoProxy ==
  \A p \in Procs :
    OfferWithoutSdp(req[p]) =>
      /\ req[p].pc = "done"
      /\ req[p].log = <<>>
      /\ (IsAllowedOrigin(req[p].offer) /\ req[p].offer.apiKey)
           => req[p].resp.status = 400

\* C17: every response of the router or of an action handler carries the
\* success flag: ok:true on success, ok:false on every failure.
C17_EveryResponseHasOkFlag ==
  \A p \in Procs :
    (req[p].ep = "workspace" /\ req[p].method = "POST" /\ req[p].pc = "done") =>
      req[p].resp.ok = (IF IsOk(req[p].resp.status) THEN "true" ELSE "false")

\* C18: no exception thrown during a request reaches the HTTP layer
\* uncaught: every request that ends was answered by its handler.
C18_NoUncaughtException ==
  \A p \in Procs : req[p].pc = "done" => req[p].resp.note # "uncaught"

\* The provider calls of request r, in order.
Calls(r) == SelectSeq(r.log, LAMBDA e : e.k = "call")

\* The last provider call of request r was answered with a failure and the
\* handler answered the request with it (no wrapper call threw).
EndedOnProviderFailure(r) ==
  /\ r.ep \in {"workspace", "rbs", "gsd", "drivelist"}
  /\ r.pc = "done"
  /\ Calls(r) # <<>>
  /\ ~IsOk(Calls(r)[Len(Calls(r))].st)
  /\ \A i \in 1..Len(r.log) : r.log[i].k # "throw"

\* C19: a non-success provider response other than the 401 that triggers the
\* refresh is passed to the caller with the provider's own status, and the
\* call is not retried: only a 401 is followed by a second invocation.
C19_ProviderFailurePassedThrough ==
  \A p \in Procs :
    /\ EndedOnProviderFailure(req[p]) =>
         req[p].resp.status = Calls(req[p])[Len(Calls(req[p]))].st
    /\ \A w \in 1..req[p].w :
         Len(EvOf(req[p], w, "call")) = 2 => EvOf(req[p], w, "call")[1].st = 401

\* C20: a credential set written to the cookie by the token store
\* (setTokensCookie, writeTokens) and read back from the next request's
\* Cookie header by load (getTokensFromCookie, readTokens) is equal in every
\* field to the set that was written.
C20_CookieRoundTrip ==
  (fout.by # "none" /\ fout.readBy \in {"getTokensFromCookie", "readTokens"}) =>
    /\ fout.loaded.ok
    /\ fout.loaded.v = fout.written
    /\ (fin.expires_in = 0 /\ fin.tokens.token_type # Absent) =>
         fout.written = Defined(fin.tokens)

C20_Witness ==
  /\ fout.by = "writeTokens"
  /\ fout.readBy = "getTokensFromCookie"
  /\ fin.tokens.access_token = Str(<<";", "%">>)
  /\ fin.tokens.refresh_token = Absent
  /\ fin.tokens.scope # Absent
  /\ fin.tokens.expiry_date # Absent
  /\ fin.tokens.token_type # Absent
  /\ fin.expires_in = 0
  /\ Len(fout.raw) > Len(CookiePair(fout.header))
  /\ fout.loaded.ok
  /\ fout.loaded.v["access_token"] = fin.tokens.access_token
  /\ "refresh_token" \notin DOMAIN fout.loaded.v

\* C21: load never throws: without a Cookie header, without a gTokens cookie
\* and for a value that is no percent-encoding or no JSON it returns absent,
\* in every handler that reads the credential cookie.
C21_LoadNeverThrows ==
  fout.readBy # "none" =>
    /\ ~fout.threw
    /\ fout.by = "none" => fout.loaded = Null

\* The request has refreshed the credential set and its response, which
\* sets the cookie, has arrived.
RefreshedAndDone(r) == r.pc = "done" /\ r.hdrSet

\* C22: two overlapping requests of one browser session each refresh on
\* their own and each write the cookie, without locking: each performs at
\* most one refresh per wrapper call, and once both responses have arrived
\* the cookie holds one of the two refreshed credential sets.
C22_RaceKeepsOneRefreshedSet ==
  /\ \A p \in Procs : \A w \in 1..req[p].w : Refreshes(req[p], w) <= 1
  /\ \A p \in Procs : Len(SelectSeq(req[p].log, LAMBDA e : e.k = "token")) <= 1
  /\ (\A p \in Procs : RefreshedAndDone(req[p])) => \E p \in Procs : cookie = req[p].hdr
  /\ \A p \in Procs :
       (RefreshedAndDone(req[p]) /\ ~RefreshedAndDone(req[3 - p])) => cookie = req[p].hdr

\* Both requests carried the same cookie, both were answered 401, both
\* refreshed, and the refreshed set of the first is overwritten by the
\* second's.
C22_Witness ==
  /\ \A p \in Procs : RefreshedAndDone(req[p]) /\ req[p].ep = "workspace"
  /\ req[1].tokens0 = req[2].tokens0
  /\ \A p \in Procs : Saw(req[p], 1, 401, 200) /\ Refreshes(req[p], 1) = 1
  /\ req[1].hdr # req[2].hdr
  /\ cookie = req[2].hdr

\* The request is to a router: api/workspace.js or api/google_sheets_docs.ts.
Routed(r) == r.ep \in {"workspace", "gsd"}

\* The request was answered with status by the router itself: no action
\* handler ran and nothing was sent to a provider.
AnsweredByRouter(r, status) ==
  r.pc = "done" /\ r.resp.status = status /\ r.w = 0 /\ r.log = <<>> /\ ~r.hdrSet

\* C23: the router answers OPTIONS as a preflight (204) whatever the cookie,
\* any other method but POST with 405, and a POST without credential cookie or
\* without access token with 401, before any action handler and any outbound
\* call.
C23_RouterChecksFirst ==
  \A p \in Procs :
    LET r == req[p]
    IN Routed(r) =>
         /\ r.method = "OPTIONS" => AnsweredByRouter(r, 204)
         /\ r.method \notin {"OPTIONS", "POST"} => AnsweredByRouter(r, 405)
         /\ (r.method = "POST" /\ ~(r.tokens0.has /\ r.tokens0.at # 0)) =>
              AnsweredByRouter(r, 401)

\* A POST for an action with a complete body, carrying a cookie whose
\* credential set has no access token, was answered 401.
C23_Witness ==
  /\ req[1].ep = "workspace"
  /\ req[1].method = "POST"
  /\ req[1].action = "sheets.read"
  /\ req[1].body.fileName
  /\ req[1].tokens0.has
  /\ req[1].tokens0.at = 0
  /\ req[1].resp.status = 401

\* The request is for something that is done with the user's credentials:
\* an action of a router, the read by search, the Drive listing, or op=me.
RequiresCredentials(r) ==
  \/ r.ep \in {"workspace", "rbs", "gsd"} /\ r.method = "POST"
  \/ r.ep = "drivelist"
  \/ r.ep = "google" /\ r.action = "me"

\* The handler is waiting for the provider with the user's credentials.
AtProvider(r) == r.pc \in {"call1", "refresh", "call2", "list", "gRefresh", "gCall"}

\* Process p receives a request in this step.
Arrives(p) == req[p].pc = "idle" /\ req'[p].pc # "idle"

\* C24: op=logout clears the cookie; a request that arrives while there is
\* no cookie makes no provider call, and is answered 401 when it is for
\* something that requires credentials; and only a consent callback whose
\* exchange succeeded stores a credential set again.
C24_LogoutDestroysCredentials ==
  [][/\ \A p \in Procs :
          (Arrives(p) /\ req'[p].ep = "google" /\ req'[p].action = "logout") =>
            cookie' = NoCred
     /\ \A p \in Procs :
          (Arrives(p) /\ cookie = NoCred) =>
            /\ ~AtProvider(req'[p])
            /\ \A i \in 1..Len(req'[p].log) : req'[p].log[i].k # "call"
            /\ RequiresCredentials(req'[p]) =>
                 req'[p].pc = "done" /\ req'[p].resp.status = 401
     /\ (cookie = NoCred /\ cookie' # NoCred) =>
          \E p \in Procs : /\ req[p].pc = "gExchange"
                           /\ req'[p].pc = "done"
                           /\ req'[p].resp.status = 302]_vars

\* Wrapper call w of request r invoked the refresher and the refresher threw.
RefreshFailed(r, w) ==
  Len(EvOf(r, w, "noRefreshToken")) + Len(EvOf(r, w, "refreshRejected")) >= 1

\* refreshIfNeeded of request r found a refresh necessary and could not
\* obtain one: the token endpoint refused, or there is no refresh token.
GoogleRefreshFailed(r) ==
  /\ r.ep = "google"
  /\ r.action \in {"status", "me"}
  /\ r.pc \notin {"idle", "gRefresh"}
  /\ r.rerr \/ (r.tokens0.has /\ r.tokens0.rt = 0 /\ Len(r.log) = 0 /\ r.tokens0.at = 0)

Positions(r, w, k) == {i \in 1..Len(r.log) : r.log[i].w = w /\ r.log[i].k = k}

\* Every entry of kind k of wrapper call w precedes position i.
AllBefore(r, w, k, i) == \A j \in Positions(r, w, k) : j < i

\* The position of the second builder invocation of wrapper call w.
RetryAt(r, w) == CHOOSE i \in Positions(r, w, "call") : \A j \in Positions(r, w, "call") : j <= i

\* The refresh of wrapper call w completed with success before the retry,
\* the retry was passed the refreshed access token, and the wrapper returns
\* the credential set of the retry.
RetryOrdered(r, w) ==
  LET calls == EvOf(r, w, "call")
      ok == EvOf(r, w, "refreshOk")
      ret == EvOf(r, w, "ret")
  IN /\ Len(ok) = 1
     /\ Refreshes(r, w) = 1
     /\ \E i \in Positions(r, w, "call") : AllBefore(r, w, "refreshOk", RetryAt(r, w))
                                            /\ i < RetryAt(r, w)
                                            /\ AllBefore(r, w, "token", RetryAt(r, w))
                                            /\ \A j \in Positions(r, w, "refreshOk") : i < j
     /\ calls[1].st = 401
     /\ calls[2].tok = ok[1].tok
     /\ Len(ret) <= 1
     /\ \A i \in 1..Len(ret) : ret[i].tok = calls[2].tok /\ ret[i].st = calls[2].st
     /\ AllBefore(r, w, "call", CHOOSE n \in {Len(r.log) + 1} \cup Positions(r, w, "ret") :
                                  \A m \in Positions(r, w, "ret") : n <= m)

\* The refreshed credential set of wrapper call w was written to the cookie
\* before the retry.
WrittenBeforeRetry(r, w) ==
  \E i \in Positions(r, w, "write") :
    i < RetryAt(r, w) /\ r.log[i].tok = EvOf(r, w, "refreshOk")[1].tok

C27_AppendSelectsAsRead ==
  (fout.read # NoFile /\ fout.append # NoFile) => fout.append = fout.read

\* The entries of kind "files" that the searches op of request r logged.
Found(r, op) == SelectSeq(r.log, LAMBDA e : e.k = "files" /\ e.op = op)

\* A folder name was supplied and the folder search answered with success
\* and no folder.
FolderMissing(r) ==
  /\ r.ep \in {"workspace", "rbs"}
  /\ r.body.folderName
  /\ Len(Found(r, "folderSearch")) = 1
  /\ Found(r, "folderSearch")[1].st = 0

Exchanges(r) == SelectSeq(r.log, LAMBDA e : e.k = "token" /\ e.op = "exchange")

\* C29: the credential cookie never holds a credential set without access
\* token: the consent callback writes the cookie only when the exchange
\* answered with success and an access token, and otherwise answers 400 and
\* sets no cookie.
C29_CookieHasAccessToken ==
  /\ cookie.has => cookie.at # 0
  /\ \A p \in Procs :
       LET r == req[p]
       IN (r.ep = "google" /\ r.action = "callback" /\ r.pc = "done"
             /\ Len(Exchanges(r)) = 1) =>
            IF Exchanges(r)[1].st = 200 /\ Exchanges(r)[1].tok # 0
              THEN r.hdrSet /\ r.hdr.at # 0
              ELSE ~r.hdrSet /\ r.resp.status = 400

\* The status of the first guard that fails, in the order method, origin,
\* API key, Content-Type (0: all four pass).
FirstFailingGuard(r) ==
  IF r.method # "POST" THEN 405
  ELSE IF ~IsAllowedOrigin(r.offer) THEN 403
  ELSE IF ~r.offer.apiKey THEN 500
  ELSE IF ~IncludesSdp(r.offer.ct) THEN 400
  ELSE 0

\* C30: the realtime offer proxy makes exactly one upstream call, and only
\* when method, origin (an absent Origin header is allowed), API key and
\* Content-Type pass; otherwise it answers with the status of the first
\* failing guard and makes no upstream call.
C30_OfferGuardsInOrder ==
  \A p \in Procs :
    LET r == req[p]
    IN (r.ep = "offer" /\ r.action \in OpenAiVariants) =>
         IF FirstFailingGuard(r) = 0
           THEN \/ r.pc = "proxy" /\ r.log = <<>>
                \/ r.pc = "done" /\ Len(r.log) = 1 /\ r.log[1].k = "call"
           ELSE r.pc = "done" /\ r.log = <<>> /\ r.resp.status = FirstFailingGuard(r)

====
